---- MODULE Spec2Model ----
(***************************************************************************)
(* CSV column translation: the four variants of the repository            *)
(*   "gui"    src/csv-translation-gui.py        (DeepLTranslator + Tk GUI) *)
(*   "cli"    src/csv-translation.py            (DeepLTranslator + prompt) *)
(*   "simple" src/translation-csv.py            (translate_csv_column)     *)
(*   "extra"  src/extra/csv-translation-gui.py  (translate_csv + Tk GUI)   *)
(* One translation job is modelled from its entry point to its end.        *)
(*                                                                         *)
(* Representation of Python values:                                        *)
(*   text            a sequence of one-character strings                   *)
(*   Optional[x]     <<>> for None, <<x>> for a value                      *)
(*   encoding names  strings, "None" for Python None                       *)
(*   NaN cell        the value NaN below                                   *)
(***************************************************************************)
EXTENDS Integers, Sequences, FiniteSets, TLC

VARIABLES
    variant,           \* which of the four source files runs
    form,              \* what the user typed into the GUI form or at the prompt
    file,              \* the input CSV: header line, body lines, parse outcome per encoding
    args,              \* arguments of translate_csv_column / translate_csv
    provider,          \* behaviour of the DeepL translation capability
    pc,                \* position of the job
    stop_translation,  \* DeepLTranslator.stop_translation (gui)
    stop_calls,        \* where the job was at each stop() of the front end
    writers,           \* the threads that wrote the flag and the progress value in this job
    attempts,          \* encodings handed to pd.read_csv, in call order
    detect_calls,      \* number of detect_encoding calls
    used_encoding,     \* encoding the table was loaded with
    df,                \* the loaded DataFrame
    target_column,     \* result of the column resolution, <<>> before it
    translated_texts,  \* list built by the loop
    calls,             \* translate capability calls made, in order
    progress,          \* row numbers of the progress events emitted
    observed,          \* values handed to the registered progress callback, as <<i, total>>
    output,            \* <<>> or <<table written by to_csv>>
    earlier_output,    \* <<>> or <<table written by an earlier job on the same input>>
    error,             \* <<>> or <<exception that ended the job>>
    reported,          \* <<>> or <<how the job's end reached its caller>>
    threads,           \* the worker threads alive: the job's own, and those of other presses
    controls,          \* state of the buttons of the GUI
    after_queue        \* callbacks handed to root.after, not yet run

vars == <<variant, form, file, args, provider, pc, stop_translation, stop_calls, writers,
          attempts,
          detect_calls, used_encoding, df, target_column, translated_texts,
          calls, progress, observed, output, earlier_output, error, reported,
          threads, controls, after_queue>>

(***************************************************************************)
(* Bounds of the explored inputs                                           *)
(***************************************************************************)
MaxRows == 2

\* worker threads of further start presses, next to the job that is followed
MaxOtherJobs == 1

Variants == {"gui", "cli", "simple", "extra"}

input_file == "in.csv"

(***************************************************************************)
(* Text and cells                                                          *)
(***************************************************************************)
NaN == <<"NaN">>

IsSpace(c) == c = " "

RECURSIVE LStrip(_)
LStrip(s) ==
    IF s = <<>> THEN s
    ELSE IF IsSpace(Head(s)) THEN LStrip(Tail(s)) ELSE s

RECURSIVE RStrip(_)
RStrip(s) ==
    IF s = <<>> THEN s
    ELSE IF IsSpace(s[Len(s)]) THEN RStrip(SubSeq(s, 1, Len(s) - 1)) ELSE s

\* str.strip()
Strip(s) == RStrip(LStrip(s))

\* pd.isna(text)
IsNa(cell) == cell = NaN

\* pd.isna(text) or not str(text).strip()
IsBlank(cell) == IsNa(cell) \/ Strip(cell) = <<>>

(***************************************************************************)
(* The input file and pandas.read_csv                                      *)
(***************************************************************************)
HeaderRow == << <<"n">>, <<"m">> >>

CellTexts == { <<>>, <<" ">>, <<"a">>, <<"b", " ">> }

\* the cells of the other columns take fewer values than those of the first
OtherTexts == { <<>>, <<"a">> }

\* an empty cell in another column comes with one text of the first column
FileRows ==
    { r \in [1..Len(HeaderRow) -> CellTexts] :
        \A k \in DOMAIN r :
            k > 1 => (r[k] \in OtherTexts /\ (r[k] = <<>> => r[1] = <<"a">>)) }

RECURSIVE SeqsUpTo(_, _)
SeqsUpTo(S, n) ==
    IF n = 0 THEN { <<>> }
    ELSE LET shorter == SeqsUpTo(S, n - 1)
         IN  shorter \cup { Append(q, x) : q \in { r \in shorter : Len(r) = n - 1 }, x \in S }

FileBodies == SeqsUpTo(FileRows, MaxRows)

\* self.common_encodings of the two DeepLTranslator classes
GuiCommonEncodings ==
    << "auto", "utf-8", "utf-8-sig", "shift-jis", "cp932", "euc-jp",
       "iso-2022-jp", "latin-1", "ascii", "utf-16", "utf-16-le", "utf-16-be",
       "cp1252", "gb2312", "big5", "euc-kr" >>

CliCommonEncodings ==
    << "utf-8", "utf-8-sig", "shift-jis", "cp932", "euc-jp",
       "iso-2022-jp", "latin-1", "ascii", "utf-16", "utf-16-le", "utf-16-be",
       "cp1252", "gb2312", "big5", "euc-kr" >>

common_encodings(v) == IF v = "gui" THEN GuiCommonEncodings ELSE CliCommonEncodings

\* encodings under which an explored file may do something else than fail to decode
VariedEncodings == {"utf-8", "shift-jis", "euc-kr"}

ParseKinds == {"ok", "UnicodeDecodeError", "ParserError"}

\* pd.read_csv(path, encoding=None) decodes as utf-8
CodecOf(enc) == IF enc = "None" THEN "utf-8" ELSE enc

\* outcome of pd.read_csv(file_path, encoding=enc) on this file; a file
\* without any line has no columns to parse: pandas.errors.EmptyDataError
ParseOutcome(f, enc) ==
    IF f.header = <<>> THEN "EmptyDataError"
    ELSE IF CodecOf(enc) \in DOMAIN f.outcome THEN f.outcome[CodecOf(enc)]
    ELSE "UnicodeDecodeError"

\* except (UnicodeDecodeError, pd.errors.ParserError)
CaughtByResolver(kind) == kind \in {"UnicodeDecodeError", "ParserError"}

\* chardet.detect(f.read())['encoding'], a function of the file's bytes
detect_encoding(f) == f.detected

\* an empty field is read as NaN
ReadCell(t) == IF t = <<>> THEN NaN ELSE t

ReadRow(r) == [k \in DOMAIN r |-> ReadCell(r[k])]

\* f"Column_{i}" for i in range(len(df.columns)), 0-based
DefaultColumns(n) == [k \in 1..n |-> << "Column_" \o ToString(k - 1) >>]

\* pd.read_csv(..., header=0) and pd.read_csv(..., header=None) + renamed columns
ReadTable(f, has_header) ==
    IF has_header
    THEN [columns |-> f.header,
          rows    |-> [r \in DOMAIN f.body |-> ReadRow(f.body[r])]]
    ELSE [columns |-> DefaultColumns(Len(f.header)),
          rows    |-> <<ReadRow(f.header)>> \o [r \in DOMAIN f.body |-> ReadRow(f.body[r])]]

NoTable == [columns |-> <<>>, rows |-> <<>>]

\* a result written over the input file
get_output_path_InputPath(v, input_path) == input_path

\* the file the result goes to, next to the input file: "output.csv" in the
\* simple variant, "output_" + time.strftime(...) + ".csv" in the others
get_output_path(v, input_path) ==
    IF v = "simple" THEN "output.csv" ELSE "output_timestamp.csv"

\* what pd.read_csv finds at the input path: the input file, unless an
\* earlier job wrote its result to that path
TableOnDisk(v, f, has_header, written) ==
    IF written # <<>> /\ get_output_path(v, input_file) = input_file
    THEN [columns |-> written[1].columns,
          rows    |-> [r \in DOMAIN written[1].rows |-> ReadRow(written[1].rows[r])]]
    ELSE ReadTable(f, has_header)

(***************************************************************************)
(* Exceptions                                                              *)
(***************************************************************************)
Exc(type, what, arg) == [type |-> type, what |-> what, arg |-> arg]

\* raise ValueError(f"ファイル '{file_path}' を読み込めるエンコーディングが見つかりませんでした。")
NoViableEncoding(path) == Exc("ValueError", "NoViableEncoding", path)

\* raise ValueError("指定された列が見つかりません。")
ColumnNotFound == Exc("ValueError", "ColumnNotFound", "")

\* deepl.AuthorizationException is a subclass of deepl.DeepLException
IsDeepLException(type) == type \in {"DeepLException", "AuthorizationException"}

(***************************************************************************)
(* Encoding resolution: DeepLTranslator.try_read_csv                       *)
(***************************************************************************)
\* the hint is tried first: gui "if encoding and encoding != 'auto'";
\* cli translate_csv_column passes no hint for "auto", then "if encoding"
HintGiven(v, encoding) == encoding # "None" /\ encoding # "auto"

\* the guard of the fallback loop
FallbackTries(v, enc, detected) ==
    IF v = "gui" THEN enc # "auto" /\ enc # detected
    ELSE enc # detected

\* for enc in self.common_encodings: ... ; raise ValueError(...)
RECURSIVE FallbackLoop(_, _, _, _, _)
FallbackLoop(v, f, encs, detected, tried) ==
    IF encs = <<>>
    THEN [ok |-> FALSE, encoding |-> "None", attempts |-> tried,
          error |-> <<NoViableEncoding(input_file)>>]
    ELSE LET enc == Head(encs) IN
         IF ~FallbackTries(v, enc, detected)
         THEN FallbackLoop(v, f, Tail(encs), detected, tried)
         ELSE IF ParseOutcome(f, enc) = "ok"
              THEN [ok |-> TRUE, encoding |-> enc, attempts |-> Append(tried, enc),
                    error |-> <<>>]
              ELSE IF CaughtByResolver(ParseOutcome(f, enc))
                   THEN FallbackLoop(v, f, Tail(encs), detected, Append(tried, enc))
                   ELSE [ok |-> FALSE, encoding |-> "None", attempts |-> Append(tried, enc),
                         error |-> <<Exc(ParseOutcome(f, enc), "read_csv", enc)>>]

\* from "detected_encoding, confidence = self.detect_encoding(file_path)" on
DetectAndRead(v, f, tried) ==
    LET detected == detect_encoding(f)
        res == IF ParseOutcome(f, detected) = "ok"
               THEN [ok |-> TRUE, encoding |-> detected,
                     attempts |-> Append(tried, detected), error |-> <<>>]
               ELSE IF CaughtByResolver(ParseOutcome(f, detected))
                    THEN FallbackLoop(v, f, common_encodings(v), detected,
                                      Append(tried, detected))
                    ELSE [ok |-> FALSE, encoding |-> "None",
                          attempts |-> Append(tried, detected),
                          error |-> <<Exc(ParseOutcome(f, detected), "read_csv", detected)>>]
    IN  [ok |-> res.ok, encoding |-> res.encoding, attempts |-> res.attempts,
         error |-> res.error, detect_calls |-> 1]

\* try_read_csv with a hint whose decode error is raised instead of caught
try_read_csv_HintRaises(v, f, encoding) ==
    IF HintGiven(v, encoding)
    THEN IF ParseOutcome(f, encoding) = "ok"
         THEN [ok |-> TRUE, encoding |-> encoding, attempts |-> <<encoding>>,
               error |-> <<>>, detect_calls |-> 0]
         ELSE [ok |-> FALSE, encoding |-> "None", attempts |-> <<encoding>>,
               error |-> <<Exc(ParseOutcome(f, encoding), "read_csv", encoding)>>,
               detect_calls |-> 0]
    ELSE DetectAndRead(v, f, <<>>)

try_read_csv(v, f, encoding) ==
    IF HintGiven(v, encoding)
    THEN CASE ParseOutcome(f, encoding) = "ok" ->
                [ok |-> TRUE, encoding |-> encoding, attempts |-> <<encoding>>,
                 error |-> <<>>, detect_calls |-> 0]
           [] ParseOutcome(f, encoding) = "UnicodeDecodeError" ->
                DetectAndRead(v, f, <<encoding>>)
           [] OTHER ->
                [ok |-> FALSE, encoding |-> "None", attempts |-> <<encoding>>,
                 error |-> <<Exc(ParseOutcome(f, encoding), "read_csv", encoding)>>,
                 detect_calls |-> 0]
    ELSE DetectAndRead(v, f, <<>>)

\* simple and extra: pd.read_csv(input_file, encoding='utf-8', header=header_option)
read_utf8(f) ==
    IF ParseOutcome(f, "utf-8") = "ok"
    THEN [ok |-> TRUE, encoding |-> "utf-8", attempts |-> <<"utf-8">>,
          error |-> <<>>, detect_calls |-> 0]
    ELSE [ok |-> FALSE, encoding |-> "None", attempts |-> <<"utf-8">>,
          error |-> <<Exc(ParseOutcome(f, "utf-8"), "read_csv", "utf-8")>>,
          detect_calls |-> 0]

LoadResult(v, f, a) ==
    IF v \in {"gui", "cli"} THEN try_read_csv(v, f, a.encoding) ELSE read_utf8(f)

(***************************************************************************)
(* Column selector resolution                                              *)
(***************************************************************************)
Range(q) == { q[k] : k \in DOMAIN q }

\* truth value of an Optional[str]: None and "" are both false
Truthy(name) == name # <<>> /\ name[1] # <<>>

ColumnPosition(columns, name) == CHOOSE k \in DOMAIN columns : columns[k] = name

\* df.columns[column_index]: Python indexing, negative positions count from the end
PythonIndex(q, idx) ==
    IF 0 <= idx /\ idx < Len(q) THEN <<q[idx + 1]>>
    ELSE IF idx < 0 /\ 0 - idx <= Len(q) THEN <<q[Len(q) + idx + 1]>>
    ELSE <<>>

\* determine_column with the test "0 <=" left out of the index range check
determine_column_NoLowerBound(table, column_name, column_index) ==
    IF Truthy(column_name) /\ column_name[1] \in Range(table.columns)
    THEN [ok |-> TRUE, column |-> <<column_name[1]>>, error |-> <<>>]
    ELSE IF column_index # <<>> /\ column_index[1] < Len(table.columns)
                                /\ PythonIndex(table.columns, column_index[1]) # <<>>
         THEN [ok |-> TRUE, column |-> PythonIndex(table.columns, column_index[1]),
               error |-> <<>>]
         ELSE [ok |-> FALSE, column |-> <<>>, error |-> <<ColumnNotFound>>]

\* DeepLTranslator.determine_column, and the same test inlined in the simple variant
determine_column(table, column_name, column_index) ==
    IF Truthy(column_name) /\ column_name[1] \in Range(table.columns)
    THEN [ok |-> TRUE, column |-> <<column_name[1]>>, error |-> <<>>]
    ELSE IF column_index # <<>> /\ 0 <= column_index[1]
                                /\ column_index[1] < Len(table.columns)
         THEN [ok |-> TRUE, column |-> <<table.columns[column_index[1] + 1]>>, error |-> <<>>]
         ELSE [ok |-> FALSE, column |-> <<>>, error |-> <<ColumnNotFound>>]

\* extra translate_csv: no existence test on the name, no range test on the index
extra_select_column(table, column_name, column_index) ==
    IF ~Truthy(column_name) /\ column_index = <<>>
    THEN [ok |-> FALSE, column |-> <<>>, error |-> <<Exc("messagebox", "NoSelector", "")>>]
    ELSE IF Truthy(column_name)
         THEN [ok |-> TRUE, column |-> <<column_name[1]>>, error |-> <<>>]
         ELSE IF PythonIndex(table.columns, column_index[1]) # <<>>
              THEN [ok |-> TRUE, column |-> PythonIndex(table.columns, column_index[1]),
                    error |-> <<>>]
              ELSE [ok |-> FALSE, column |-> <<>>,
                    error |-> <<Exc("IndexError", "df.columns", "")>>]

SelectColumn(v, table, a) ==
    IF v = "extra" THEN extra_select_column(table, a.column_name, a.column_index)
    ELSE determine_column(table, a.column_name, a.column_index)

(***************************************************************************)
(* The translation capability and translate_text                           *)
(***************************************************************************)
\* the text the provider returns for a text it translates
Translated(text, lang) == <<lang>> \o text

\* self.translator.translate_text(str(text), target_lang=target_lang)
ProviderCall(p, text, lang) ==
    IF ~p.credential_ok THEN [ok |-> FALSE, text |-> <<>>, type |-> "AuthorizationException"]
    ELSE IF text \in p.fail_texts THEN [ok |-> FALSE, text |-> <<>>, type |-> "DeepLException"]
    ELSE [ok |-> TRUE, text |-> Translated(text, lang), type |-> ""]

\* does this variant wrap the provider call in "except deepl.DeepLException"
CatchesDeepLException(v) == v \in {"gui", "cli", "extra"}

\* translate_text with the blank test reduced to pd.isna(text)
translate_text_NoStrip(v, p, cell, lang) ==
    IF IsNa(cell)
    THEN [out |-> <<>>, called |-> FALSE, raised |-> <<>>]
    ELSE LET r == ProviderCall(p, cell, lang) IN
         IF r.ok THEN [out |-> r.text, called |-> TRUE, raised |-> <<>>]
         ELSE IF CatchesDeepLException(v) /\ IsDeepLException(r.type)
              THEN [out |-> cell, called |-> TRUE, raised |-> <<>>]
              ELSE [out |-> <<>>, called |-> TRUE,
                    raised |-> <<Exc(r.type, "translate_text", "")>>]

\* one cell of the loop: the output cell, whether the provider was called,
\* and the exception that leaves the loop, if any
translate_text(v, p, cell, lang) ==
    IF IsBlank(cell)
    THEN [out |-> <<>>, called |-> FALSE, raised |-> <<>>]
    ELSE LET r == ProviderCall(p, cell, lang) IN
         IF r.ok THEN [out |-> r.text, called |-> TRUE, raised |-> <<>>]
         ELSE IF CatchesDeepLException(v) /\ IsDeepLException(r.type)
              THEN [out |-> cell, called |-> TRUE, raised |-> <<>>]
              ELSE [out |-> <<>>, called |-> TRUE,
                    raised |-> <<Exc(r.type, "translate_text", "")>>]

(***************************************************************************)
(* Progress reporting                                                      *)
(***************************************************************************)
\* the simple variant reports every 10 rows
SimpleLogInterval == 10

\* Python's i % n for a positive i and n # 0: the result takes the sign of n
PyMod(i, n) ==
    IF n > 0 THEN i % n
    ELSE IF i % (0 - n) = 0 THEN 0 ELSE (i % (0 - n)) + n

\* "i % log_interval" raises ZeroDivisionError when log_interval is 0
ProgressTestRaises(v, a) == v \in {"gui", "cli"} /\ a.log_interval = 0

\* is a progress event emitted after row i of total
EmitsProgress(v, a, i, total, cell) ==
    CASE v \in {"gui", "cli"} -> PyMod(i, a.log_interval) = 0 \/ i = total
      [] v = "simple"         -> ~IsBlank(cell) /\ (i % SimpleLogInterval = 0 \/ i = total)
      [] OTHER                -> TRUE

\* progress = i / total, kept as the pair of its terms
Fraction(i, total) == <<i, total>>

\* "if self.progress_callback:"; only the gui variant has the callback, which
\* start_translation registers with set_progress_callback(self.update_progress)
CallbackRegistered(v) == v = "gui"

(***************************************************************************)
(* Writing the result                                                      *)
(***************************************************************************)
\* the assignment landing on the first column whatever the target is
AssignColumn_First(table, name, texts) ==
    [columns |-> table.columns,
     rows    |-> [r \in DOMAIN table.rows |-> [table.rows[r] EXCEPT ![1] = texts[r]]]]

\* df[target_column] = translated_texts
AssignColumn(table, name, texts) ==
    LET k == ColumnPosition(table.columns, name) IN
    [columns |-> table.columns,
     rows    |-> [r \in DOMAIN table.rows |-> [table.rows[r] EXCEPT ![k] = texts[r]]]]

\* df[target_column], the cells the loop iterates over
ColumnCells(table, name) ==
    LET k == ColumnPosition(table.columns, name) IN
    [r \in DOMAIN table.rows |-> table.rows[r][k]]

(***************************************************************************)
(* Inputs of the explored jobs                                             *)
(***************************************************************************)
Args(name, index, has_header, encoding, log_interval) ==
    [column_name |-> name, column_index |-> index, target_lang |-> "JA",
     has_header |-> has_header, encoding |-> encoding, log_interval |-> log_interval]

\* a file that parses as utf-8 and is detected as utf-8
PlainFile(body) ==
    [header |-> HeaderRow, body |-> body,
     outcome |-> [e \in VariedEncodings |-> IF e = "utf-8" THEN "ok" ELSE "UnicodeDecodeError"],
     detected |-> "utf-8"]

\* a file of zero bytes: no header line, no rows, nothing for chardet to detect
EmptyFile ==
    [header |-> <<>>, body |-> <<>>,
     outcome |-> [e \in VariedEncodings |-> "ok"],
     detected |-> "None"]

FailingTexts == { <<"b", " ">> }

Providers ==
    { [credential_ok |-> TRUE,  fail_texts |-> {}],
      [credential_ok |-> TRUE,  fail_texts |-> FailingTexts],
      [credential_ok |-> FALSE, fail_texts |-> {}] }

GoodProvider == [credential_ok |-> TRUE, fail_texts |-> {}]

SampleBody == << [k \in 1..Len(HeaderRow) |-> IF k = 1 THEN <<"a">> ELSE <<>>],
                 [k \in 1..Len(HeaderRow) |-> IF k = 1 THEN <<" ">> ELSE <<"a">>] >>

Digits == {"0", "1", "2", "3", "4", "5", "6", "7", "8", "9"}

\* str.isdigit()
IsDigitString(s) == s # <<>> /\ \A k \in DOMAIN s : s[k] \in Digits

DigitValue(c) == CHOOSE n \in 0..9 : ToString(n) = c

\* int(s) for a string of digits
RECURSIVE ParseInt(_)
ParseInt(s) ==
    IF s = <<>> THEN 0
    ELSE 10 * ParseInt(SubSeq(s, 1, Len(s) - 1)) + DigitValue(s[Len(s)])

\* does int(s) accept the text: blanks around an optional sign and digits
IsIntText(s) ==
    LET t == Strip(s)
        digits == IF t # <<>> /\ t[1] \in {"-", "+"} THEN Tail(t) ELSE t
    IN  IsDigitString(digits)

\* int(s) for a text it accepts
PyInt(s) ==
    LET t == Strip(s) IN
    IF t[1] = "-" THEN 0 - ParseInt(Tail(t))
    ELSE IF t[1] = "+" THEN ParseInt(Tail(t))
    ELSE ParseInt(t)

\* the default the cli prompt falls back to, also the initial text of the gui field
DefaultLogInterval == 10

\* the StringVars of the gui form and the DEEPL_AUTH_KEY of the environment;
\* the cli prompt supplies log_interval
Form(auth_key, column_method, column_value, log_interval) ==
    [auth_key |-> auth_key, column_method |-> column_method,
     column_value |-> column_value, log_interval |-> log_interval]

\* gui start_translation: column_name or int(column_value), by column_method
gui_form_selector(column_method, column_value) ==
    [column_name  |-> IF column_method = "name" THEN <<column_value>> ELSE <<>>,
     column_index |-> IF column_method # "name" /\ IsIntText(column_value)
                      THEN <<PyInt(column_value)>> ELSE <<>>]

\* log_interval as the entry point hands it on: int(text); the cli prompt
\* replaces a text that is no integer by 10, the gui form starts no job on it
EntryLogInterval(text) == IF IsIntText(text) THEN PyInt(text) ELSE DefaultLogInterval

\* extra start_translation: the selector handed to translate_csv
extra_start_selector(var_method, entry_column, entry_index) ==
    [column_name  |-> IF var_method = 1 THEN <<entry_column>> ELSE <<>>,
     column_index |-> IF var_method = 2 /\ IsDigitString(entry_index)
                      THEN <<ParseInt(entry_index)>> ELSE <<>>]

ColumnNames == { <<"n">>, <<"m">>, <<"z">>, <<"Column_0">> }

EntryIndexTexts == { <<>>, <<"-", "1">>, <<"0">>, <<"1">>, <<"2">> }

\* selectors the extra GUI form can produce
ExtraSelectors ==
    { extra_start_selector(me, ec, ei) :
        me \in {1, 2}, ec \in ColumnNames \cup {<<>>}, ei \in EntryIndexTexts }

\* selectors handed to translate_csv_column (name and index are both optional parameters)
ApiSelectors ==
    [column_name  : { <<>> } \cup { <<nm>> : nm \in ColumnNames \cup {<<>>} },
     column_index : { <<>>, <<0 - 1>>, <<0>>, <<1>>, <<Len(HeaderRow)>> }]

\* the gui variant takes its selector from the form
Selectors(v) == IF v = "extra" THEN ExtraSelectors ELSE ApiSelectors

HintEncodings == {"None", "auto", "utf-8", "shift-jis", "euc-kr"}

DetectedEncodings == {"None", "utf-8", "shift-jis", "euc-kr", "ascii"}

IntervalTexts == { <<"-", "1">>, <<"0">>, <<"1">>, <<"2">>, <<"x">> }

\* only the gui form and the cli prompt ask for an interval
IntervalTextsOf(v) == IF v \in {"gui", "cli"} THEN IntervalTexts ELSE { <<"1">> }

ColumnValues == ColumnNames \cup EntryIndexTexts

\* the forms of the gui variant
GuiForms ==
    { Form(k, m, cv, <<"1">>) : k \in BOOLEAN, m \in {"name", "index"}, cv \in ColumnValues }

\* the arguments a gui form leads to
FormArgs(fm, has_header, encoding) ==
    LET sel == gui_form_selector(fm.column_method, fm.column_value) IN
    Args(sel.column_name, sel.column_index, has_header, encoding,
         EntryLogInterval(fm.log_interval))

\* the threads of a job: the front end (Tk main loop, or the program's main
\* path) and the worker that runs the translation loop
NoWriters == [flag |-> {}, progress |-> {}]

Wrote(w, what, thread) == [w EXCEPT ![what] = @ \cup {thread}]

NoThreads == [job |-> FALSE, others |-> 0]

\* the number of worker threads alive
ActiveWorkers(t) == (IF t.job THEN 1 ELSE 0) + t.others

\* gui enable_controls(enabled): the stop button is the opposite of the other two
enable_controls(enabled) ==
    [start_button           |-> IF enabled THEN "normal" ELSE "disabled",
     stop_button            |-> IF enabled THEN "disabled" ELSE "normal",
     detect_encoding_button |-> IF enabled THEN "normal" ELSE "disabled"]

\* jobs that differ in the table and in the provider
InitTables ==
    /\ file \in { PlainFile(b) : b \in FileBodies } \cup { EmptyFile }
    /\ form \in { Form(TRUE, "name", HeaderRow[1], t) : t \in IntervalTextsOf(variant) }
    /\ args = FormArgs(form, TRUE, "auto")
    /\ provider \in Providers

\* jobs that differ in the column selector
InitSelectors ==
    /\ file = PlainFile(SampleBody)
    /\ IF variant = "gui"
       THEN /\ form \in GuiForms
            /\ args \in { FormArgs(form, hh, "auto") : hh \in BOOLEAN }
       ELSE /\ form = Form(TRUE, "", <<>>, <<"1">>)
            /\ args \in { Args(sel.column_name, sel.column_index, hh, "auto", 1) :
                            sel \in Selectors(variant), hh \in BOOLEAN }
    /\ provider = GoodProvider

\* jobs that differ in the encodings
InitEncodings ==
    /\ file \in { [header |-> HeaderRow, body |-> SampleBody, outcome |-> o, detected |-> d] :
                    o \in [VariedEncodings -> ParseKinds], d \in DetectedEncodings }
    /\ form = Form(TRUE, "index", <<"0">>, <<"1">>)
    /\ args \in { FormArgs(form, TRUE, h) : h \in HintEncodings }
    /\ provider = GoodProvider

Init ==
    /\ variant \in Variants
    /\ \/ InitTables
       \/ InitSelectors
       \/ InitEncodings
    /\ pc = "idle"
    /\ stop_translation = FALSE
    /\ stop_calls = <<>>
    /\ writers = NoWriters
    /\ attempts = <<>>
    /\ detect_calls = 0
    /\ used_encoding = "None"
    /\ df = NoTable
    /\ target_column = <<>>
    /\ translated_texts = <<>>
    /\ calls = <<>>
    /\ progress = <<>>
    /\ observed = <<>>
    /\ output = <<>>
    /\ earlier_output = <<>>
    /\ error = <<>>
    /\ reported = <<>>
    /\ threads = NoThreads
    /\ controls = enable_controls(TRUE)
    /\ after_queue = <<>>

(***************************************************************************)
(* The job                                                                 *)
(***************************************************************************)
inputs == <<variant, form, file, args, provider>>

front_end == <<threads, controls, after_queue>>

job == <<pc, stop_translation, stop_calls, writers, attempts, detect_calls, used_encoding, df,
         target_column, translated_texts, calls, progress, observed, output,
         earlier_output, error, reported>>

\* how the end of the job reaches the caller of the translation function
Report(how, what) == [how |-> how, what |-> what]

\* after to_csv: gui "return output_file", cli and simple fall off the end of
\* the function, the extra worker shows messagebox.showinfo
CompletionReport(v) ==
    CASE v = "gui"   -> Report("return", "output_file")
      [] v = "extra" -> Report("message", "showinfo")
      [] OTHER       -> Report("return", "None")

\* gui "return False" at the cancellation check
CancellationReport(v) == Report("return", "False")

\* "except Exception": gui and simple raise again, cli logs the error and
\* falls off the end of the function, extra translate_csv shows
\* messagebox.showerror; nothing catches an exception of the extra worker
FailureReport(v, exc) ==
    CASE v \in {"gui", "simple"} -> Report("raise", exc.type)
      [] v = "cli"               -> Report("return", "None")
      [] OTHER                   -> IF exc.what = "df[target_column]"
                                    THEN Report("thread_exception", exc.type)
                                    ELSE Report("message", "showerror")

\* an exception that is recorded while the job goes on where it was
Fail_GoOn(exc) ==
    /\ pc' = pc
    /\ error' = exc
    /\ reported' = <<FailureReport(variant, exc[1])>>

\* an exception leaves translate_csv_column: the job ends without a write
Fail(exc) ==
    /\ pc' = "failed"
    /\ error' = exc
    /\ reported' = <<FailureReport(variant, exc[1])>>

\* gui start_translation as far as the thread start: the message box it
\* returns on, or "thread_started" (a file is always selected here)
gui_start(fm) ==
    IF fm.column_value = <<>> THEN "no_column"
    ELSE IF ~IsIntText(fm.log_interval) THEN "interval_not_integer"
    ELSE IF PyInt(fm.log_interval) <= 0 THEN "interval_not_positive"
    ELSE IF ~fm.auth_key THEN "init_failed"
    ELSE IF fm.column_method # "name" /\ ~IsIntText(fm.column_value) THEN "index_not_integer"
    ELSE "thread_started"

\* the returns of gui start_translation after "self.progress_bar['value'] = 0"
AcceptedStarts == {"init_failed", "index_not_integer", "thread_started"}

\* the entry point hands the job over: gui start_translation checks the form,
\* builds a new DeepLTranslator (stop_translation = False) and starts the
\* worker thread; the other variants call the translation function
\* does this variant run the job on a worker thread
Threaded(v) == v \in {"gui", "extra"}

\* can the entry point be reached: Tk runs the command of an enabled button
\* only; the extra form never disables its button; the cli and the simple
\* program are run again once they have ended
CanStart ==
    CASE variant = "gui"   -> controls.start_button = "normal"
      [] variant = "extra" -> TRUE
      [] OTHER             -> pc \in {"idle", "done", "cancelled", "failed"}

\* the handler starts a job; the variables of the job start afresh, and the
\* table an earlier job wrote stays on disk
StartJob ==
    /\ IF variant = "gui"
       THEN IF gui_start(form) = "thread_started"
            THEN /\ pc' = "started"
                 /\ error' = <<>>
                 /\ threads' = [threads EXCEPT !.job = TRUE]
                 /\ controls' = enable_controls(FALSE)
            ELSE /\ pc' = "rejected"
                 /\ error' = <<Exc("messagebox", gui_start(form), "")>>
                 /\ threads' = threads
                 /\ controls' = IF gui_start(form) \in AcceptedStarts
                                THEN enable_controls(TRUE) ELSE controls
       ELSE /\ pc' = "read"
            /\ error' = <<>>
            /\ threads' = [threads EXCEPT !.job = Threaded(variant)]
            /\ controls' = controls
    /\ stop_translation' = FALSE
    /\ stop_calls' = <<>>
    /\ writers' = IF variant = "gui" /\ gui_start(form) \in AcceptedStarts
                  THEN Wrote(NoWriters, "progress", "front_end")
                  ELSE NoWriters
    /\ earlier_output' = IF output # <<>> THEN output ELSE earlier_output
    /\ attempts' = <<>>
    /\ detect_calls' = 0
    /\ used_encoding' = "None"
    /\ df' = NoTable
    /\ target_column' = <<>>
    /\ translated_texts' = <<>>
    /\ calls' = <<>>
    /\ progress' = <<>>
    /\ observed' = <<>>
    /\ output' = <<>>
    /\ reported' = <<>>
    /\ UNCHANGED <<inputs, after_queue>>

\* the start handler: gui start_translation, extra start_translation, or the
\* program being run. While the worker of the job is alive, one more press
\* starts one more worker thread, which is counted and not followed.
Start ==
    /\ CanStart
    /\ IF threads.job
       THEN /\ threads.others < MaxOtherJobs
            /\ threads' = [threads EXCEPT !.others = @ + 1]
            /\ UNCHANGED <<inputs, job, controls, after_queue>>
       ELSE StartJob

\* gui translate_csv_column: self.stop_translation = False
Begin ==
    /\ pc = "started"
    /\ pc' = "read"
    /\ stop_translation' = FALSE
    /\ writers' = Wrote(writers, "flag", "worker")
    /\ UNCHANGED <<inputs, front_end, stop_calls, attempts, detect_calls, used_encoding, df, target_column,
                   translated_texts, calls, progress, observed, output, earlier_output, error, reported>>

\* reading the file: try_read_csv and the header handling, or the plain utf-8 read
Load ==
    /\ pc = "read"
    /\ LET res == LoadResult(variant, file, args) IN
       /\ attempts' = res.attempts
       /\ detect_calls' = res.detect_calls
       /\ IF res.ok
          THEN /\ used_encoding' = res.encoding
               /\ df' = TableOnDisk(variant, file, args.has_header, earlier_output)
               /\ pc' = "column"
               /\ UNCHANGED <<error, reported>>
          ELSE /\ Fail(res.error)
               /\ UNCHANGED <<used_encoding, df>>
    /\ UNCHANGED <<inputs, front_end, stop_translation, stop_calls, writers, target_column, translated_texts, calls,
                   progress, observed, output, earlier_output>>

\* the column selector is resolved against the loaded table
Resolve ==
    /\ pc = "column"
    /\ LET sel == SelectColumn(variant, df, args) IN
       IF sel.ok
       THEN /\ target_column' = sel.column
            /\ pc' = IF variant = "extra" THEN "spawned" ELSE "loop"
            /\ UNCHANGED <<error, reported>>
       ELSE /\ Fail(sel.error)
            /\ target_column' = target_column
    /\ UNCHANGED <<inputs, front_end, stop_translation, stop_calls, writers, attempts, detect_calls, used_encoding, df,
                   translated_texts, calls, progress, observed, output, earlier_output>>

\* extra process_translation: total_rows = len(df[target_column])
WorkerBegin ==
    /\ pc = "spawned"
    /\ IF target_column[1] \in Range(df.columns)
       THEN pc' = "loop" /\ UNCHANGED <<error, reported>>
       ELSE Fail(<<Exc("KeyError", "df[target_column]", "")>>)
    /\ UNCHANGED <<inputs, front_end, stop_translation, stop_calls, writers, attempts, detect_calls, used_encoding, df,
                   target_column, translated_texts, calls, progress, observed, output, earlier_output>>

\* the loop without its cancellation check
CancelRequested_Never(v, flag) == FALSE

\* "if self.stop_translation:" at the top of the loop body; only the gui variant has it
CancelRequested(v, flag) == v = "gui" /\ flag

\* one iteration of "for i, text in enumerate(df[target_column], 1)"
LoopStep ==
    /\ pc = "loop"
    /\ Len(translated_texts) < Len(df.rows)
    /\ LET i     == Len(translated_texts) + 1
           total == Len(df.rows)
           cell  == ColumnCells(df, target_column[1])[i]
           t     == translate_text(variant, provider, cell, args.target_lang)
       IN
       IF CancelRequested(variant, stop_translation)
       THEN /\ pc' = "cancelled"
            /\ reported' = <<CancellationReport(variant)>>
            /\ UNCHANGED <<translated_texts, calls, progress, observed, error, writers>>
       ELSE /\ calls' = IF t.called THEN Append(calls, [row |-> i, text |-> cell]) ELSE calls
            /\ IF t.raised # <<>>
               THEN /\ Fail(t.raised)
                    /\ UNCHANGED <<translated_texts, progress, observed, writers>>
               ELSE /\ translated_texts' = Append(translated_texts, t.out)
                    /\ IF ProgressTestRaises(variant, args)
                       THEN /\ Fail(<<Exc("ZeroDivisionError", "i % log_interval", "")>>)
                            /\ UNCHANGED <<progress, observed, writers>>
                       ELSE /\ progress' = IF EmitsProgress(variant, args, i, total, cell)
                                           THEN Append(progress, i) ELSE progress
                            /\ observed' = IF /\ EmitsProgress(variant, args, i, total, cell)
                                              /\ CallbackRegistered(variant)
                                           THEN Append(observed, Fraction(i, total))
                                           ELSE observed
                            /\ writers' = IF EmitsProgress(variant, args, i, total, cell)
                                          THEN Wrote(writers, "progress", "worker")
                                          ELSE writers
                            /\ UNCHANGED <<pc, error, reported>>
    /\ UNCHANGED <<inputs, front_end, stop_translation, stop_calls, attempts, detect_calls, used_encoding, df,
                   target_column, output, earlier_output>>

\* after the loop: df[target_column] = translated_texts; df.to_csv(output_file, ...)
WriteOutput ==
    /\ pc = "loop"
    /\ Len(translated_texts) = Len(df.rows)
    /\ output' = <<AssignColumn(df, target_column[1], translated_texts)>>
    /\ pc' = "done"
    /\ reported' = <<CompletionReport(variant)>>
    /\ UNCHANGED <<inputs, front_end, stop_translation, stop_calls, writers, attempts, detect_calls, used_encoding, df,
                   target_column, translated_texts, calls, progress, observed,
                   earlier_output, error>>

\* where the worker thread is: before "self.stop_translation = False" of
\* translate_csv_column, inside translate_csv_column, or past it
WorkerPhase(p) ==
    CASE p = "started"                   -> "starting"
      [] p \in {"read", "column", "loop"} -> "running"
      [] OTHER                           -> "ended"

\* gui stop_translation -> DeepLTranslator.stop(), on the GUI thread
Stop ==
    /\ variant = "gui"
    /\ controls.stop_button = "normal"
    /\ ~stop_translation
    /\ stop_translation' = TRUE
    /\ stop_calls' = Append(stop_calls, [worker |-> WorkerPhase(pc),
                                         rows   |-> Len(translated_texts)])
    /\ writers' = Wrote(writers, "flag", "front_end")
    /\ UNCHANGED <<inputs, front_end, pc, attempts, detect_calls, used_encoding, df, target_column,
                   translated_texts, calls, progress, observed, output, earlier_output, error, reported>>

\* run_translation with the controls restored after the try block instead
\* of in its finally clause
run_translation_callbacks_NoFinally(outcome) ==
    CASE outcome = "done"   -> <<"showinfo", "enable_controls">>
      [] outcome = "failed" -> <<"show_error">>
      [] OTHER              -> <<"enable_controls">>

\* gui run_translation after translate_csv_column returned or raised: the
\* callbacks handed to root.after
run_translation_callbacks(outcome) ==
    CASE outcome = "done"   -> <<"showinfo", "enable_controls">>
      [] outcome = "failed" -> <<"show_error", "enable_controls">>
      [] OTHER              -> <<"enable_controls">>

\* the worker thread of the job ends: gui run_translation schedules its
\* callbacks and returns; the extra threads return
WorkerEnd ==
    /\ threads.job
    /\ pc \in {"done", "cancelled", "failed"}
    /\ threads' = [threads EXCEPT !.job = FALSE]
    /\ after_queue' = IF variant = "gui"
                      THEN after_queue \o run_translation_callbacks(pc)
                      ELSE after_queue
    /\ UNCHANGED <<inputs, job, controls>>

\* the worker thread of another press ends
OtherWorkerEnd ==
    /\ threads.others > 0
    /\ threads' = [threads EXCEPT !.others = @ - 1]
    /\ UNCHANGED <<inputs, job, controls, after_queue>>

\* the Tk main loop runs the next callback scheduled with root.after(0, ...)
AfterCallback ==
    /\ after_queue # <<>>
    /\ after_queue' = Tail(after_queue)
    /\ controls' = IF Head(after_queue) = "enable_controls"
                   THEN enable_controls(TRUE) ELSE controls
    /\ UNCHANGED <<inputs, job, threads>>

Next ==
    \/ Start
    \/ Begin
    \/ Load
    \/ Resolve
    \/ WorkerBegin
    \/ LoopStep
    \/ WriteOutput
    \/ Stop
    \/ WorkerEnd
    \/ OtherWorkerEnd
    \/ AfterCallback

Spec == Init /\ [][Next]_vars

\* the steps of the worker thread of the job
Worker ==
    \/ Begin
    \/ Load
    \/ Resolve
    \/ WorkerBegin
    \/ LoopStep
    \/ WriteOutput
    \/ WorkerEnd

\* a started thread keeps running (every read, provider call and write
\* returns) and the Tk main loop runs the callbacks handed to root.after;
\* nothing is assumed about the presses of the user
FairSpec == Spec /\ WF_vars(Worker) /\ WF_vars(AfterCallback)

TypeOK ==
    /\ variant \in Variants
    /\ pc \in {"idle", "rejected", "started", "read", "column", "spawned", "loop",
               "done", "cancelled", "failed"}
    /\ stop_translation \in BOOLEAN
    /\ Len(translated_texts) <= Len(df.rows)
    /\ Len(error) <= 1
    /\ Len(output) <= 1

(***************************************************************************)
(* Properties                                                              *)
(***************************************************************************)
\* the table the job loaded, as a function of its inputs
InputTable == ReadTable(file, args.has_header)

Completed == pc = "done"

Terminated == pc \in {"done", "cancelled", "failed"}

\* missing, or empty once surrounding blanks are removed
BlankCell(cell) ==
    \/ cell = NaN
    \/ \A k \in DOMAIN cell : cell[k] = " "

\* C1: a completed job wrote a table with the rows, the columns and the row
\* order of the loaded input table, and every cell outside the selected
\* column equals the input cell.
C1_OutputKeepsFrame ==
    Completed =>
        /\ Len(output) = 1
        /\ target_column # <<>>
        /\ output[1].columns = InputTable.columns
        /\ Len(output[1].rows) = Len(InputTable.rows)
        /\ \A r \in DOMAIN InputTable.rows :
               /\ DOMAIN output[1].rows[r] = DOMAIN InputTable.rows[r]
               /\ \A k \in DOMAIN InputTable.rows[r] :
                      InputTable.columns[k] # target_column[1]
                          => output[1].rows[r][k] = InputTable.rows[r][k]

\* a completed job of two rows with a translated cell in the selected column while a
\* non-empty cell of another column was carried over
C1_Witness ==
    /\ Completed
    /\ Len(InputTable.rows) >= 2
    /\ \E r \in DOMAIN InputTable.rows : \E k, j \in DOMAIN InputTable.columns :
           /\ InputTable.columns[k] = target_column[1]
           /\ ~BlankCell(InputTable.rows[r][k])
           /\ output[1].rows[r][k] = Translated(InputTable.rows[r][k], args.target_lang)
           /\ j # k
           /\ ~IsNa(InputTable.rows[r][j])
           /\ output[1].rows[r][j] = InputTable.rows[r][j]

\* the selected cells of the loaded table, once the column is resolved
SelectedCells == ColumnCells(InputTable, target_column[1])

InLoop == pc \in {"loop", "done", "cancelled"} \/ (pc = "failed" /\ calls # <<>>)

\* the calls a complete pass over the cells makes: one per non-blank cell, in row order
RECURSIVE ExpectedCalls(_, _)
ExpectedCalls(cells, n) ==
    IF n = 0 THEN <<>>
    ELSE IF BlankCell(cells[n]) THEN ExpectedCalls(cells, n - 1)
         ELSE Append(ExpectedCalls(cells, n - 1), [row |-> n, text |-> cells[n]])

\* C2: a row whose selected cell is missing or blank gets the empty string
\* and no translate call; a completed job called translate exactly once per
\* non-blank cell, in row order.
C2_BlankCellsSkipped ==
    InLoop =>
        /\ \A r \in DOMAIN translated_texts :
               BlankCell(SelectedCells[r]) =>
                   /\ translated_texts[r] = <<>>
                   /\ \A c \in DOMAIN calls : calls[c].row # r
        /\ \A c \in DOMAIN calls : ~BlankCell(SelectedCells[calls[c].row])
        /\ Completed =>
               /\ calls = ExpectedCalls(SelectedCells, Len(SelectedCells))
               /\ \A r \in DOMAIN SelectedCells :
                      BlankCell(SelectedCells[r]) =>
                          output[1].rows[r][ColumnPosition(InputTable.columns, target_column[1])] = <<>>

\* a completed job over a whitespace-only cell, a missing cell or both, and a translated cell
C2_Witness ==
    /\ Completed
    /\ \E r \in DOMAIN SelectedCells : SelectedCells[r] = <<" ">>
    /\ \E r \in DOMAIN SelectedCells : ~BlankCell(SelectedCells[r])
    /\ Len(calls) = 1

\* the provider raises a per-cell provider error on this call
ProviderErrorOn(c) == provider.credential_ok /\ c.text \in provider.fail_texts

\* C3: for every row on which the translate capability raised a provider
\* error the output cell is the original text and the job goes on; the
\* error does not abort the job in any variant.
C3_ProviderErrorKeepsText ==
    \A c \in DOMAIN calls :
        ProviderErrorOn(calls[c]) =>
            /\ pc # "failed"
            /\ Len(translated_texts) >= calls[c].row
            /\ translated_texts[calls[c].row] = calls[c].text
            /\ Completed =>
                   output[1].rows[calls[c].row][ColumnPosition(InputTable.columns, target_column[1])]
                       = calls[c].text

\* C4: a credential rejected on the first translate call fails the job
\* there: one translate call at most, an AuthorizationException as the
\* job's error, no output file.
C4_RejectedCredentialAborts ==
    (~provider.credential_ok /\ calls # <<>>) =>
        /\ Len(calls) = 1
        /\ output = <<>>
        /\ pc = "failed"
        /\ error = <<Exc("AuthorizationException", "translate_text", "")>>

\* the variants that resolve the encoding with try_read_csv
HasResolver == variant \in {"gui", "cli"}

ReadDone == pc \notin {"idle", "rejected", "started", "read"}

Loaded == df # NoTable

\* the fallback list without the "auto" entry of the gui drop-down
FallbackList ==
    LET IsEncoding(e) == e # "auto" IN SelectSeq(common_encodings(variant), IsEncoding)

HintPart == IF args.encoding \notin {"None", "auto"} THEN <<args.encoding>> ELSE <<>>

\* hint, detected encoding, fallback list
Candidates == HintPart \o <<file.detected>> \o FallbackList

Parses(enc) == ParseOutcome(file, enc) = "ok"

RECURSIVE FirstViable(_)
FirstViable(cands) ==
    IF cands = <<>> THEN <<>>
    ELSE IF Parses(Head(cands)) THEN <<Head(cands)>> ELSE FirstViable(Tail(cands))

ListPosition(q, e) == CHOOSE k \in DOMAIN q : q[k] = e

C6_NoEncodingTriedTwice ==
    (HasResolver /\ ReadDone) =>
        \A k \in DOMAIN attempts : k > Len(HintPart) + 1 =>
            \A j \in 1..(k - 1) : attempts[j] # attempts[k]

\* C7: when parsing fails under the hint, the detected encoding and every
\* fallback encoding, try_read_csv fails with NoViableEncoding naming the
\* file and the job ends without a translate call and without output.
C7_NoViableEncoding ==
    (HasResolver /\ ReadDone /\ \A e \in Range(Candidates) : ~Parses(e)) =>
        /\ pc = "failed"
        /\ error = <<NoViableEncoding(input_file)>>
        /\ calls = <<>>
        /\ output = <<>>

\* the column the selector stands for: the name when it is a column, else
\* the column at the index when it is in range, else none
ExpectedColumn ==
    LET cols == InputTable.columns
        name == args.column_name
        idx  == args.column_index
    IN  IF name # <<>> /\ name[1] \in Range(cols) THEN <<name[1]>>
        ELSE IF idx # <<>> /\ 0 <= idx[1] /\ idx[1] < Len(cols) THEN <<cols[idx[1] + 1]>>
        ELSE <<>>

ResolutionDone == Loaded /\ pc # "column"

\* the ways a variant reports a selector that names no column
ColumnFailures == {"ColumnNotFound", "NoSelector", "df.columns", "df[target_column]"}

FailedOnColumn ==
    /\ pc = "failed"
    /\ error # <<>>
    /\ error[1].what \in ColumnFailures

\* C8: the resolution yields the named column when the name is a column,
\* else the column at the index when the index is in range, else it fails
\* with ColumnNotFound, in every variant.
C8_ColumnResolution ==
    ResolutionDone =>
        IF ExpectedColumn # <<>>
        THEN target_column = ExpectedColumn
        ELSE target_column = <<>> /\ FailedOnColumn

JobStarts ==
    /\ pc \in {"idle", "rejected", "done", "cancelled", "failed"}
    /\ pc' \in {"started", "read"}

\* the cancellation check of the next row will fire
CancelPending ==
    /\ variant = "gui"
    /\ pc = "loop"
    /\ stop_translation
    /\ Len(translated_texts) < Len(df.rows)

ProgressInterval ==
    CASE variant \in {"gui", "cli"} -> args.log_interval
      [] variant = "simple"         -> SimpleLogInterval
      [] OTHER                      -> 1

\* the progress events the rule asks for after the first n rows of total
ExpectedProgress(n, total) ==
    LET Due(i) == i % ProgressInterval = 0 \/ i = total
    IN  SelectSeq([i \in 1..n |-> i], Due)

\* C11: with a positive interval, after every processed row i, blank rows
\* included, a progress event is emitted exactly when i is a multiple of
\* the interval or the last row; the registered callback of the gui
\* variant receives i/total at exactly those events.
C11_ProgressRule ==
    (InLoop /\ ProgressInterval > 0) =>
        /\ progress = ExpectedProgress(Len(translated_texts), Len(df.rows))
        /\ variant = "gui" =>
               observed = [k \in DOMAIN progress |-> <<progress[k], Len(df.rows)>>]

\* the variants whose entry point asks the user for the progress interval
AsksInterval == variant \in {"gui", "cli"}

\* C12: an interval of zero or less is rejected before the loop on the gui
\* form and on the cli prompt: the job does not start and no translate
\* call is made with it.
C12_NonPositiveIntervalRejected ==
    (AsksInterval /\ IsIntText(form.log_interval) /\ PyInt(form.log_interval) <= 0) =>
        /\ pc \in {"idle", "rejected"}
        /\ calls = <<>>
        /\ translated_texts = <<>>
        /\ output = <<>>

\* the input has no data row, or no column at all
EmptyInputTable == file.body = <<>> /\ (args.has_header \/ file.header = <<>>)

\* C13: a job on an input with zero rows or zero columns never completes:
\* no translate call is made and no output is written for it.
C13_EmptyInputFails ==
    EmptyInputTable =>
        /\ pc # "done"
        /\ output = <<>>
        /\ calls = <<>>

\* the outcome a caller reads off the way the job ended for it: an
\* exception or an error box is a failure, the value False a cancellation,
\* any other return and the completion box a completion
ReadsAs(r) ==
    CASE r.how \in {"raise", "thread_exception"}      -> "failed"
      [] r.how = "message" /\ r.what = "showerror"    -> "failed"
      [] r.how = "return" /\ r.what = "False"         -> "cancelled"
      [] OTHER                                        -> "done"

\* C14: a job that ended is completed, cancelled or failed, and its caller
\* can tell which: what reaches the caller reads as that outcome, so a
\* failed job is never reported the way a completed one is.
C14_OutcomeDistinguishable ==
    Terminated =>
        /\ Len(reported) = 1
        /\ ReadsAs(reported[1]) = pc
        /\ pc = "done" <=> output # <<>>
        /\ pc = "failed" <=> error # <<>>

C16_SingleWriter ==
    /\ writers.flag \subseteq {"front_end"}
    /\ writers.progress \subseteq {"worker"}

\* C17: in both GUI variants at most one worker thread is alive at any
\* time, whatever the sequence of start presses: no worker is started
\* while the worker of an earlier press is translating or writing.
C17_OneWorker ==
    variant \in {"gui", "extra"} => ActiveWorkers(threads) <= 1

\* a stop() reached the translator after the worker thread was started and
\* before the worker had processed the last row of a table with rows
StoppedInTime ==
    \E k \in DOMAIN stop_calls :
        /\ stop_calls[k].worker \in {"starting", "running"}
        /\ Len(InputTable.rows) >= 1
        /\ stop_calls[k].rows < Len(InputTable.rows)

\* C18: in the gui variant a stop() that arrives after the worker thread
\* was started and before the last row was processed is not lost: the job
\* does not complete and writes no output, however the call interleaves
\* with the start of the worker.
C18_CancellationNotLost ==
    (variant = "gui" /\ StoppedInTime) =>
        /\ pc # "done"
        /\ output = <<>>

Locked == controls = enable_controls(FALSE)

Restored == controls = enable_controls(TRUE)

\* C19: in the gui variant start is disabled and stop enabled from the
\* acceptance of a job until its worker ends; a start that fails on the
\* translator or on the column index leaves the controls restored; and
\* locked controls are always restored in the end, after every outcome of
\* the worker: while they are locked the worker is alive or the restoring
\* callback is scheduled.
C19_ControlsRestored ==
    /\ [](variant = "gui" =>
             /\ Locked \/ Restored
             /\ threads.job => Locked
             /\ pc = "rejected" => Restored
             /\ Locked => \/ threads.job
                          \/ \E k \in DOMAIN after_queue : after_queue[k] = "enable_controls")
    /\ (variant = "gui" /\ Locked) ~> Restored

\* the controls are back after a job that failed in its worker
C19_Witness ==
    /\ variant = "gui"
    /\ pc = "failed"
    /\ ~threads.job
    /\ after_queue = <<>>
    /\ Restored

\* C20: the output is written at most once per job and only after every row
\* of the selected column has been processed: wherever the output has been
\* written the job has completed, the number of processed rows is the row
\* count of the table, the cancellation check has not fired and no fatal
\* error occurred; the write happens at the end of the loop, and until
\* another job is started the written output does not change and no
\* translate call is made.
C20_WrittenOnceAtTheEnd ==
    /\ [](output # <<>> =>
             /\ pc = "done"
             /\ Len(translated_texts) = Len(df.rows)
             /\ Len(output[1].rows) = Len(df.rows)
             /\ error = <<>>
             /\ reported = <<CompletionReport(variant)>>)
    /\ [][(output' # output /\ output' # <<>>) =>
             (output = <<>> /\ pc = "loop" /\ Len(translated_texts) = Len(df.rows))]_vars
    /\ [][(output # <<>> /\ ~JobStarts) => (output' = output /\ calls' = calls)]_vars

\* a table of MaxRows rows has been written after a call for every row
C20_Witness ==
    /\ output # <<>>
    /\ Len(df.rows) = MaxRows
    /\ Len(calls) = MaxRows
    /\ stop_calls # <<>>

\* the last progress event of the job carries (total, total)
LastProgressIsTotal ==
    /\ progress # <<>>
    /\ progress[Len(progress)] = Len(df.rows)
    /\ CallbackRegistered(variant) =>
           /\ observed # <<>>
           /\ observed[Len(observed)] = Fraction(Len(df.rows), Len(df.rows))

\* C21: within one job the emitted progress values are strictly increasing
\* and never exceed the total; a job that has completed on a table of at
\* least one row has emitted (total, total) as its last progress event, and
\* the output is only written with that event emitted; a cancelled job has
\* no progress event beyond the rows processed when the check fired.
C21_ProgressSequence ==
    /\ \A k \in DOMAIN progress :
           /\ progress[k] >= 1
           /\ progress[k] <= Len(df.rows)
           /\ k > 1 => progress[k - 1] < progress[k]
    /\ Len(observed) <= Len(progress)
    /\ ((pc = "done" \/ output # <<>>) /\ Len(df.rows) >= 1) => LastProgressIsTotal
    /\ pc = "cancelled" =>
           \A k \in DOMAIN progress : progress[k] <= Len(translated_texts)

====
